---- MODULE Spec2Model ----
(***************************************************************************)
(* Ecolyze (app.py): a Streamlit page whose "Run Analysis" button loads a  *)
(* CSV, syncs it to a BigQuery table, runs a top-5 aggregation, mirrors    *)
(* the result into a MongoDB collection, trains a BigQuery ML model and    *)
(* queries it.  The model keeps the external stores (dataset, table,       *)
(* model, collection), the two Streamlit caches, and the position of each  *)
(* browser session's handler.  Every external call can fail.               *)
(***************************************************************************)
EXTENDS Integers, Sequences, FiniteSets, TLC

(***************************************************************************)
(* Bounds of the model.                                                    *)
(***************************************************************************)
\* clicks of "Run Analysis", all sessions together
MaxRuns == 2
\* restarts of the Streamlit process (a restart empties both caches)
MaxRestarts == 1
\* rows of the enumerated CSV files
MaxCsvRows == 2

(***************************************************************************)
(* Program constants.                                                      *)
(***************************************************************************)
\* app.py:31  df[df["year"] >= 2000]
MinYear == 2000
\* app.py:54  LIMIT 5
LIMIT == 5

\* a sample of the selectbox's list(range(2000, 2023)), app.py:89
YearOptions == {2000, 2020}

Countries == {"India", "USA", "China", "Brazil", "Germany", "France"}

Min(a, b) == IF a < b THEN a ELSE b

(***************************************************************************)
(* The remote CSV.  A cell is <<>> (an empty cell, read as NaN) or <<v>>.  *)
(* The file has more columns than the four the program keeps; "other"      *)
(* stands for them.                                                        *)
(***************************************************************************)
Cell(v) == <<v>>
NaN == <<>>
IsNull(c) == c = NaN

CsvRow(c, y, e, p, o) ==
    [country |-> c, year |-> y, co2 |-> e, population |-> p, other |-> o]

\* a complete row
FullRow(c, y, e) == CsvRow(Cell(c), Cell(y), Cell(e), Cell(1), Cell(1))

(***************************************************************************)
(* load_data, app.py:27-32.                                                *)
(***************************************************************************)
\* df[["country", "year", "co2", "population"]]
Project(csv) ==
    [i \in 1..Len(csv) |->
        [country |-> csv[i].country, year |-> csv[i].year,
         co2 |-> csv[i].co2, population |-> csv[i].population]]

\* .dropna(): a row with a NaN in any (remaining) column is dropped
HasNa(r) == \E f \in DOMAIN r : IsNull(r[f])
DropNa(rows) == SelectSeq(rows, LAMBDA r : ~HasNa(r))

\* df[df["year"] >= 2000].reset_index(drop=True); NaN >= 2000 is False
YearFilter(rows) ==
    SelectSeq(rows, LAMBDA r : ~IsNull(r.year) /\ r.year[1] >= MinYear)

\* a slip: dropna() before the four columns are selected
load_data_dropna_first(csv) == YearFilter(Project(DropNa(csv)))

load_data(csv) == YearFilter(DropNa(Project(csv)))

(***************************************************************************)
(* query_summary, app.py:47-56: the SQL statement, clause by clause.  The   *)
(* table holds what load_data returned, cells included; a result row holds *)
(* plain values.                                                           *)
(***************************************************************************)
\* a slip: the WHERE clause left out
WhereAnyYear(table, y) == table

\* WHERE year = {year}
Where(table, y) == SelectSeq(table, LAMBDA r : r.year = Cell(y))

\* GROUP BY country / SUM(co2): one pass over the rows, one accumulator per
\* country met
RECURSIVE GroupSum(_)
GroupSum(rows) ==
    IF rows = <<>> THEN [c \in {} |-> 0]
    ELSE LET acc == GroupSum(SubSeq(rows, 1, Len(rows) - 1))
             r   == rows[Len(rows)]
         IN  IF r.country[1] \in DOMAIN acc
             THEN [acc EXCEPT ![r.country[1]] = @ + r.co2[1]]
             ELSE (r.country[1] :> r.co2[1]) @@ acc

\* a slip: ORDER BY total_co2 without DESC
RECURSIVE OrderByAsc(_)
OrderByAsc(g) ==
    IF DOMAIN g = {} THEN {<<>>}
    ELSE LET low == {c \in DOMAIN g : \A d \in DOMAIN g : g[c] <= g[d]}
         IN  UNION {
               {<<[country |-> c, total_co2 |-> g[c]]>> \o s :
                   s \in OrderByAsc([d \in DOMAIN g \ {c} |-> g[d]])}
               : c \in low}

\* ORDER BY total_co2 DESC: every order the engine may return; rows of equal
\* total come in any order
RECURSIVE OrderByDesc(_)
OrderByDesc(g) ==
    IF DOMAIN g = {} THEN {<<>>}
    ELSE LET top == {c \in DOMAIN g : \A d \in DOMAIN g : g[d] <= g[c]}
         IN  UNION {
               {<<[country |-> c, total_co2 |-> g[c]]>> \o s :
                   s \in OrderByDesc([d \in DOMAIN g \ {c} |-> g[d]])}
               : c \in top}

\* LIMIT 5
Limit(s, n) == SubSeq(s, 1, Min(n, Len(s)))

\* the results query_summary(year) may return on a table
query_summary(table, y) ==
    {Limit(s, LIMIT) : s \in OrderByDesc(GroupSum(Where(table, y)))}

(***************************************************************************)
(* store_to_mongo's conversion, app.py:63: df.to_dict(orient="records")    *)
(* gives one dict per row; insert_many gives every dict a fresh _id.       *)
(***************************************************************************)
to_dict(df) ==
    [i \in 1..Len(df) |-> [country |-> df[i].country, total_co2 |-> df[i].total_co2]]

WithIds(docs, u, n) ==
    [i \in 1..Len(docs) |->
        [_id |-> <<u, n, i>>, country |-> docs[i].country,
         total_co2 |-> docs[i].total_co2]]

\* the collection's documents without their _id
Rows(coll) ==
    [i \in 1..Len(coll) |->
        [country |-> coll[i].country, total_co2 |-> coll[i].total_co2]]

(***************************************************************************)
(* predict_co2, app.py:76-83: one prediction per India row from 2015 on.   *)
(***************************************************************************)
PredictFromYear == 2015

PredictInput(table) ==
    SelectSeq(table, LAMBDA r : r.country = Cell("India") /\ r.year[1] >= PredictFromYear)

PredictedYears(table) ==
    [i \in 1..Len(PredictInput(table)) |-> PredictInput(table)[i].year[1]]

(***************************************************************************)
(* State.                                                                  *)
(***************************************************************************)
VARIABLES
    csv,            \* the remote CSV file (never changes)
    sessions,       \* the browser sessions using the deployment
    dataCache,      \* st.cache_data of load_data: <<>> or <<df>>
    resourceCache,  \* st.cache_resource of push_to_bigquery: <<>> or <<df>>
    computeLock,    \* the session computing push_to_bigquery, 0 if none
    datasetExists,  \* the BigQuery dataset eco_ai_dataset exists
    bqTable,        \* rows of the table eco_ai_dataset.emissions
    modelTrained,   \* the model emissions_forecast exists
    mongo,          \* documents of eco_db.emissions_data
    pc,             \* per session: where its Run Analysis handler stands
    year,           \* per session: the selectbox's value
    df,             \* per session: push_to_bigquery's local df
    summary_df,     \* per session: the handler's summary_df
    prediction_df,  \* per session: the handler's prediction_df
    runs,           \* clicks so far
    restarts,       \* process restarts so far
    issued,         \* per session: the steps the current action has called
    returned,       \* per session: how many of them returned
    raised,         \* per session: the exception that ended the action, or ""
    trace,          \* per session: the warehouse calls of its sync body
    fetchRuns,      \* executions of load_data's body in this process
    fetchOk,        \* of which returned
    syncRuns,       \* executions of push_to_bigquery's body in this process
    syncOk,         \* of which returned
    sinceDelete,    \* the tables the insert_many calls completed since the last
                    \* delete_many were given, in order
    stored          \* the tables the completed store_to_mongo calls were given

vars == <<csv, sessions, dataCache, resourceCache, computeLock, datasetExists,
          bqTable, modelTrained, mongo, pc, year, df, summary_df, prediction_df,
          runs, restarts, issued, returned, raised, trace, fetchRuns, fetchOk,
          syncRuns, syncOk, sinceDelete, stored>>

external == <<csv, sessions>>
caches   == <<dataCache, resourceCache, computeLock>>
bigquery == <<datasetExists, bqTable, modelTrained>>
counters == <<fetchRuns, fetchOk, syncRuns, syncOk>>
mirror   == <<mongo, sinceDelete, stored>>
locals   == <<year, df, summary_df, prediction_df>>

\* the order of the handler's calls, app.py:93-97
Steps == <<"push_to_bigquery", "query_summary", "store_to_mongo",
           "create_ml_model", "predict_co2">>

\* a slip: predict_co2() called before create_ml_model()
AfterPredictFirst(step) ==
    CASE step = "push_to_bigquery" -> "query_summary"
      [] step = "query_summary"    -> "delete_many"
      [] step = "store_to_mongo"   -> "predict_co2"
      [] step = "predict_co2"      -> "create_ml_model"
      [] step = "create_ml_model"  -> "render"

\* app.py:93-99: where the handler goes when a step has returned
\* (store_to_mongo starts with its delete_many)
After(step) ==
    CASE step = "push_to_bigquery" -> "query_summary"
      [] step = "query_summary"    -> "delete_many"
      [] step = "store_to_mongo"   -> "create_ml_model"
      [] step = "create_ml_model"  -> "predict_co2"
      [] step = "predict_co2"      -> "render"

\* a slip: a cache that never holds a value
CacheMiss(cache) == FALSE

\* app.py:27 and 34: st.cache_data / st.cache_resource hold a value once the
\* function has returned one
CacheHit(cache) == cache # <<>>

(***************************************************************************)
(* An exception leaves the handler (nothing in app.py catches it, but for  *)
(* the except of line 40); a cached function that raises stores nothing    *)
(* and gives up the compute lock.                                          *)
(***************************************************************************)
Raise(u, kind) ==
    /\ pc' = [pc EXCEPT ![u] = "error"]
    /\ raised' = [raised EXCEPT ![u] = kind]
    /\ computeLock' = IF computeLock = u THEN 0 ELSE computeLock

Call(u, step) == issued' = [issued EXCEPT ![u] = Append(@, step)]
Return(u) == returned' = [returned EXCEPT ![u] = @ + 1]

(***************************************************************************)
(* app.py:89-91: the user picks a year and clicks Run Analysis.            *)
(***************************************************************************)
Click(u, y) ==
    /\ pc[u] \in {"idle", "done", "error"}
    /\ runs < MaxRuns
    /\ runs' = runs + 1
    /\ year' = [year EXCEPT ![u] = y]
    /\ pc' = [pc EXCEPT ![u] = "push_to_bigquery"]
    /\ issued' = [issued EXCEPT ![u] = <<>>]
    /\ returned' = [returned EXCEPT ![u] = 0]
    /\ raised' = [raised EXCEPT ![u] = ""]
    /\ trace' = [trace EXCEPT ![u] = <<>>]
    /\ summary_df' = [summary_df EXCEPT ![u] = <<>>]
    /\ prediction_df' = [prediction_df EXCEPT ![u] = <<>>]
    /\ UNCHANGED <<external, caches, bigquery, mirror, df, restarts, counters>>

(***************************************************************************)
(* app.py:93 and the decorator of line 34: a cached value is returned      *)
(* without running the body; otherwise the body runs under the cache's     *)
(* compute lock.                                                           *)
(***************************************************************************)
PushToBigquery(u) ==
    /\ pc[u] = "push_to_bigquery"
    /\ \/ /\ CacheHit(resourceCache)
          /\ Call(u, "push_to_bigquery")
          /\ Return(u)
          /\ pc' = [pc EXCEPT ![u] = After("push_to_bigquery")]
          /\ UNCHANGED <<computeLock, syncRuns>>
       \/ /\ ~CacheHit(resourceCache)
          /\ computeLock = 0
          /\ computeLock' = u
          /\ Call(u, "push_to_bigquery")
          /\ syncRuns' = syncRuns + 1
          /\ pc' = [pc EXCEPT ![u] = "load_data"]
          /\ UNCHANGED returned
    /\ UNCHANGED <<external, dataCache, resourceCache, bigquery, mirror, locals,
                   runs, restarts, raised, trace, fetchRuns, fetchOk, syncOk>>

(***************************************************************************)
(* app.py:36 and 27-32: load_data, cached by st.cache_data.                *)
(***************************************************************************)
LoadData(u) ==
    /\ pc[u] = "load_data"
    /\ \/ /\ CacheHit(dataCache)
          /\ df' = [df EXCEPT ![u] = dataCache[1]]
          /\ pc' = [pc EXCEPT ![u] = "get_dataset"]
          /\ UNCHANGED <<dataCache, fetchRuns, fetchOk, raised, computeLock>>
       \/ /\ ~CacheHit(dataCache)
          /\ fetchRuns' = fetchRuns + 1
          /\ \/ /\ dataCache' = <<load_data(csv)>>
                /\ df' = [df EXCEPT ![u] = load_data(csv)]
                /\ fetchOk' = fetchOk + 1
                /\ pc' = [pc EXCEPT ![u] = "get_dataset"]
                /\ UNCHANGED <<raised, computeLock>>
             \/ /\ Raise(u, "URLError")
                /\ UNCHANGED <<dataCache, df, fetchOk>>
    /\ UNCHANGED <<external, resourceCache, bigquery, mirror, year, summary_df,
                   prediction_df, runs, restarts, issued, returned, trace,
                   syncRuns, syncOk>>

(***************************************************************************)
(* app.py:38-40: get_dataset; any exception enters the except branch.      *)
(***************************************************************************)
GetDatasetOutcomes ==
    IF datasetExists THEN {"ok", "ServiceUnavailable"}
    ELSE {"NotFound", "ServiceUnavailable"}

GetDataset(u) ==
    /\ pc[u] = "get_dataset"
    /\ \E o \in GetDatasetOutcomes :
          /\ trace' = [trace EXCEPT ![u] = Append(@, <<"get_dataset", o>>)]
          /\ pc' = [pc EXCEPT ![u] =
                        IF o = "ok" THEN "load_table_from_dataframe"
                        ELSE "create_dataset"]
    /\ UNCHANGED <<external, caches, bigquery, mirror, locals, runs, restarts,
                   issued, returned, raised, counters>>

(***************************************************************************)
(* app.py:41: create_dataset, in the except branch; its own exception      *)
(* leaves push_to_bigquery.                                                *)
(***************************************************************************)
CreateDatasetOutcomes ==
    IF datasetExists THEN {"Conflict"} ELSE {"ok", "Forbidden"}

CreateDataset(u) ==
    /\ pc[u] = "create_dataset"
    /\ \E o \in CreateDatasetOutcomes :
          /\ trace' = [trace EXCEPT ![u] = Append(@, <<"create_dataset", o>>)]
          /\ IF o = "ok"
             THEN /\ datasetExists' = TRUE
                  /\ pc' = [pc EXCEPT ![u] = "load_table_from_dataframe"]
                  /\ UNCHANGED <<raised, computeLock>>
             ELSE /\ Raise(u, o)
                  /\ UNCHANGED datasetExists
    /\ UNCHANGED <<external, dataCache, resourceCache, bqTable, modelTrained,
                   mirror, locals, runs, restarts, issued, returned, counters>>

(***************************************************************************)
(* app.py:42-45: load_table_from_dataframe without a job_config (the load  *)
(* job's default write disposition, WRITE_APPEND), job.result(), return.   *)
(***************************************************************************)
LoadJob(table, rows) == table \o rows

LoadTable(u) ==
    /\ pc[u] = "load_table_from_dataframe"
    /\ \/ /\ trace' = [trace EXCEPT ![u] = Append(@, <<"load_table_from_dataframe", "ok">>)]
          /\ bqTable' = LoadJob(bqTable, df[u])
          /\ resourceCache' = <<df[u]>>
          /\ computeLock' = 0
          /\ syncOk' = syncOk + 1
          /\ Return(u)
          /\ pc' = [pc EXCEPT ![u] = After("push_to_bigquery")]
          /\ UNCHANGED raised
       \/ /\ trace' = [trace EXCEPT ![u] = Append(@, <<"load_table_from_dataframe", "error">>)]
          /\ Raise(u, "GoogleAPIError")
          /\ UNCHANGED <<bqTable, resourceCache, syncOk, returned>>
    /\ UNCHANGED <<external, dataCache, datasetExists, modelTrained, mirror,
                   locals, runs, restarts, issued, fetchRuns, fetchOk, syncRuns>>

(***************************************************************************)
(* app.py:94 and 47-56: the aggregation query on the table as it stands.   *)
(***************************************************************************)
QuerySummary(u) ==
    /\ pc[u] = "query_summary"
    /\ Call(u, "query_summary")
    /\ \/ /\ \E result \in query_summary(bqTable, year[u]) :
                summary_df' = [summary_df EXCEPT ![u] = result]
          /\ Return(u)
          /\ pc' = [pc EXCEPT ![u] = After("query_summary")]
          /\ UNCHANGED <<raised, computeLock>>
       \/ /\ Raise(u, "GoogleAPIError")
          /\ UNCHANGED <<summary_df, returned>>
    /\ UNCHANGED <<external, dataCache, resourceCache, bigquery, mirror, year, df,
                   prediction_df, runs, restarts, trace, counters>>

\* a slip: a delete that removes nothing
delete_many_nothing(coll) == coll

\* app.py:62: collection.delete_many({}), every document matches {}
delete_many(coll) == <<>>

\* a slip: the insert written as a replacement of the collection
insert_many_replacing(coll, docs) == docs

\* app.py:63: collection.insert_many(documents) adds to what is there
insert_many(coll, docs) == coll \o docs

(***************************************************************************)
(* app.py:95 and 59-62: store_to_mongo up to collection.delete_many({}).   *)
(* MongoClient connects lazily, so delete_many is the first round trip.    *)
(***************************************************************************)
DeleteMany(u) ==
    /\ pc[u] = "delete_many"
    /\ Call(u, "store_to_mongo")
    /\ \/ /\ mongo' = delete_many(mongo)
          /\ sinceDelete' = <<>>
          /\ pc' = [pc EXCEPT ![u] = "insert_many"]
          /\ UNCHANGED <<raised, computeLock>>
       \/ /\ Raise(u, "PyMongoError")
          /\ UNCHANGED <<mongo, sinceDelete>>
    /\ UNCHANGED <<external, dataCache, resourceCache, bigquery, stored, locals,
                   runs, restarts, returned, trace, counters>>

(***************************************************************************)
(* app.py:63-64: collection.insert_many(df.to_dict(orient="records")).     *)
(* pymongo's insert_many raises TypeError("documents must be a non-empty   *)
(* list") on an empty list, before anything is sent.                       *)
(***************************************************************************)
InsertMany(u) ==
    /\ pc[u] = "insert_many"
    /\ LET documents == to_dict(summary_df[u])
       IN  IF documents = <<>>
           THEN /\ Raise(u, "TypeError")
                /\ UNCHANGED <<mirror, returned>>
           ELSE \/ /\ mongo' = insert_many(mongo, WithIds(documents, u, runs))
                   /\ sinceDelete' = Append(sinceDelete, summary_df[u])
                   /\ stored' = Append(stored, summary_df[u])
                   /\ Return(u)
                   /\ pc' = [pc EXCEPT ![u] = After("store_to_mongo")]
                   /\ UNCHANGED <<raised, computeLock>>
                \/ /\ Raise(u, "PyMongoError")
                   /\ UNCHANGED <<mirror, returned>>
    /\ UNCHANGED <<external, dataCache, resourceCache, bigquery, locals, runs,
                   restarts, issued, trace, counters>>

(***************************************************************************)
(* app.py:96 and 66-74: CREATE OR REPLACE MODEL, waited for.               *)
(***************************************************************************)
CreateMlModel(u) ==
    /\ pc[u] = "create_ml_model"
    /\ Call(u, "create_ml_model")
    /\ \/ /\ modelTrained' = TRUE
          /\ Return(u)
          /\ pc' = [pc EXCEPT ![u] = After("create_ml_model")]
          /\ UNCHANGED <<raised, computeLock>>
       \/ /\ Raise(u, "GoogleAPIError")
          /\ UNCHANGED <<modelTrained, returned>>
    /\ UNCHANGED <<external, dataCache, resourceCache, datasetExists, bqTable,
                   mirror, locals, runs, restarts, trace, counters>>

(***************************************************************************)
(* app.py:97 and 76-83: ML.PREDICT; it fails when the model is missing.    *)
(***************************************************************************)
PredictCo2(u) ==
    /\ pc[u] = "predict_co2"
    /\ Call(u, "predict_co2")
    /\ \/ /\ modelTrained
          /\ prediction_df' = [prediction_df EXCEPT ![u] = PredictedYears(bqTable)]
          /\ Return(u)
          /\ pc' = [pc EXCEPT ![u] = After("predict_co2")]
          /\ UNCHANGED <<raised, computeLock>>
       \/ /\ Raise(u, "GoogleAPIError")
          /\ UNCHANGED <<prediction_df, returned>>
    /\ UNCHANGED <<external, dataCache, resourceCache, bigquery, mirror, year, df,
                   summary_df, runs, restarts, trace, counters>>

(***************************************************************************)
(* app.py:99-105: the success message, the table and the two charts.       *)
(***************************************************************************)
Render(u) ==
    /\ pc[u] = "render"
    /\ pc' = [pc EXCEPT ![u] = "done"]
    /\ UNCHANGED <<external, caches, bigquery, mirror, locals, runs, restarts,
                   issued, returned, raised, trace, counters>>

(***************************************************************************)
(* The process ends and starts again: the caches of lines 27 and 34 live   *)
(* in the process, every running handler dies with it, the external        *)
(* stores stay as they are.                                                *)
(***************************************************************************)
Restart ==
    /\ restarts < MaxRestarts
    /\ restarts' = restarts + 1
    /\ dataCache' = <<>>
    /\ resourceCache' = <<>>
    /\ computeLock' = 0
    /\ pc' = [u \in sessions |-> "idle"]
    /\ df' = [u \in sessions |-> <<>>]
    /\ summary_df' = [u \in sessions |-> <<>>]
    /\ prediction_df' = [u \in sessions |-> <<>>]
    /\ issued' = [u \in sessions |-> <<>>]
    /\ returned' = [u \in sessions |-> 0]
    /\ raised' = [u \in sessions |-> ""]
    /\ trace' = [u \in sessions |-> <<>>]
    /\ fetchRuns' = 0 /\ fetchOk' = 0 /\ syncRuns' = 0 /\ syncOk' = 0
    /\ UNCHANGED <<external, bigquery, mirror, year, runs>>

(***************************************************************************)
(* CSV files.                                                              *)
(***************************************************************************)
\* the scenario of the aggregation's example, with rows the loader and the
\* WHERE clause must leave out
ExampleCsv ==
    << FullRow("India", 2020, 1000), FullRow("USA", 2020, 5000),
       FullRow("China", 2020, 4000), FullRow("France", 2000, 9999),
       FullRow("Brazil", 2020, 400), FullRow("India", 2020, 1500),
       CsvRow(Cell("France"), Cell(2020), NaN, Cell(1), Cell(1)),
       FullRow("Germany", 2020, 600), FullRow("China", 2020, 5000),
       FullRow("France", 2020, 300), FullRow("USA", 1999, 7000) >>

\* two small files for the runs with two sessions
MainCsvs ==
    { << FullRow("India", 2000, 3), FullRow("USA", 2000, 1),
         FullRow("India", 2020, 2), FullRow("China", 1999, 9),
         CsvRow(Cell("USA"), Cell(2020), NaN, Cell(1), NaN) >>,
      << FullRow("USA", 2020, 2), FullRow("India", 2020, 2) >> }

\* every row with at most one empty cell, on both sides of the year filter
RawRows ==
    { CsvRow(c, y, e, p, o) :
        c \in {Cell("India")}, y \in {Cell(1999), Cell(2000)},
        e \in {Cell(1)}, p \in {Cell(1)}, o \in {Cell(1), NaN} }
    \cup { CsvRow(NaN, y, Cell(1), Cell(1), Cell(1)) : y \in {Cell(1999), Cell(2000)} }
    \cup { CsvRow(Cell("USA"), NaN, Cell(2), Cell(1), Cell(1)) }
    \cup { CsvRow(Cell("USA"), y, NaN, Cell(1), Cell(1)) : y \in {Cell(1999), Cell(2000)} }
    \cup { CsvRow(Cell("USA"), y, Cell(2), NaN, Cell(1)) : y \in {Cell(1999), Cell(2000)} }
    \cup { CsvRow(Cell("USA"), Cell(2000), Cell(2), Cell(1), Cell(1)) }

RECURSIVE SeqsUpTo(_, _)
SeqsUpTo(S, n) ==
    IF n = 0 THEN {<<>>}
    ELSE LET shorter == SeqsUpTo(S, n - 1)
         IN  shorter \cup {Append(s, x) : s \in shorter, x \in S}

EnumeratedCsvs == SeqsUpTo(RawRows, MaxCsvRows)

\* per country none, one or two rows of the year 2000: ties, and sums of rows
CountryRows(c, k) ==
    IF k = 0 THEN <<>>
    ELSE IF k = 1 THEN <<FullRow(c, 2000, 1)>>
    ELSE <<FullRow(c, 2000, 2), FullRow(c, 2000, 1)>>

RankingCsv(f) ==
    CountryRows("India", f["India"]) \o CountryRows("USA", f["USA"])
    \o CountryRows("China", f["China"]) \o CountryRows("Brazil", f["Brazil"])
    \o CountryRows("Germany", f["Germany"]) \o CountryRows("France", f["France"])

RankingCsvs == {RankingCsv(f) : f \in [Countries -> 0..2]}

DataCsvs == {ExampleCsv} \cup EnumeratedCsvs \cup RankingCsvs

(***************************************************************************)
(* Initial states: a fresh process, an empty table and collection.         *)
(***************************************************************************)
InitWith(files, ss) ==
    /\ csv \in files
    /\ sessions = ss
    /\ dataCache = <<>>
    /\ resourceCache = <<>>
    /\ computeLock = 0
    /\ datasetExists \in BOOLEAN
    /\ bqTable = <<>>
    /\ modelTrained = FALSE
    /\ mongo = <<>>
    /\ pc = [u \in ss |-> "idle"]
    /\ year = [u \in ss |-> MinYear]
    /\ df = [u \in ss |-> <<>>]
    /\ summary_df = [u \in ss |-> <<>>]
    /\ prediction_df = [u \in ss |-> <<>>]
    /\ runs = 0
    /\ restarts = 0
    /\ issued = [u \in ss |-> <<>>]
    /\ returned = [u \in ss |-> 0]
    /\ raised = [u \in ss |-> ""]
    /\ trace = [u \in ss |-> <<>>]
    /\ fetchRuns = 0 /\ fetchOk = 0 /\ syncRuns = 0 /\ syncOk = 0
    /\ sinceDelete = <<>>
    /\ stored = <<>>

\* two users of one deployment
Init == InitWith(MainCsvs, {1, 2})
Next ==
    \/ \E u \in sessions, y \in YearOptions : Click(u, y)
    \/ \E u \in sessions : PushToBigquery(u)
    \/ \E u \in sessions : LoadData(u)
    \/ \E u \in sessions : GetDataset(u)
    \/ \E u \in sessions : CreateDataset(u)
    \/ \E u \in sessions : LoadTable(u)
    \/ \E u \in sessions : QuerySummary(u)
    \/ \E u \in sessions : DeleteMany(u)
    \/ \E u \in sessions : InsertMany(u)
    \/ \E u \in sessions : CreateMlModel(u)
    \/ \E u \in sessions : PredictCo2(u)
    \/ \E u \in sessions : Render(u)
    \/ Restart
Spec == Init /\ [][Next]_vars

\* one user
InitSingle == InitWith(MainCsvs \cup {ExampleCsv}, {1})
SpecSingle == InitSingle /\ [][Next]_vars

\* one user, one action up to the aggregation, on every enumerated file
InitData == InitWith(DataCsvs, {1})
NextData ==
    \/ \E u \in sessions, y \in YearOptions : runs = 0 /\ Click(u, y)
    \/ \E u \in sessions : PushToBigquery(u)
    \/ \E u \in sessions : LoadData(u)
    \/ \E u \in sessions : GetDataset(u)
    \/ \E u \in sessions : CreateDataset(u)
    \/ \E u \in sessions : LoadTable(u)
    \/ \E u \in sessions : QuerySummary(u)
SpecData == InitData /\ [][NextData]_vars

(***************************************************************************)
(* Properties of the loaded table and of the aggregation (SpecData).       *)
(***************************************************************************)
TrackedColumns == {"country", "year", "co2", "population"}

\* a fetched row the loader has to keep
Kept(r) ==
    /\ \A f \in TrackedColumns : r[f] # NaN
    /\ r.year[1] >= MinYear

Tracked(r) == [f \in TrackedColumns |-> r[f]]

\* the fetched rows to keep, in the file's order
RECURSIVE KeptRows(_)
KeptRows(file) ==
    IF file = <<>> THEN <<>>
    ELSE (IF Kept(Head(file)) THEN <<Tracked(Head(file))>> ELSE <<>>)
         \o KeptRows(Tail(file))

RowValid(r) ==
    /\ DOMAIN r = TrackedColumns
    /\ \A f \in TrackedColumns : r[f] # NaN
    /\ r.year[1] >= MinYear

\* C8: every row of the table load_data returned, and every row of the
\* warehouse table, has year >= 2000 and a value in each of country, year,
\* co2 and population, and the table load_data returned holds every fetched
\* row that satisfies both, in the file's order.
C8_LoadedRowsValidAndComplete ==
    /\ dataCache # <<>> =>
          LET t == dataCache[1]
          IN  /\ \A k \in 1..Len(t) : RowValid(t[k])
              /\ t = KeptRows(csv)
    /\ \A k \in 1..Len(bqTable) :
          /\ RowValid(bqTable[k])
          /\ \E i \in 1..Len(csv) : Kept(csv[i]) /\ bqTable[k] = Tracked(csv[i])

\* a loaded table that kept a row with an empty untracked cell and dropped
\* another row
C8_Witness ==
    /\ bqTable # <<>>
    /\ Len(bqTable) < Len(csv)
    /\ \E i \in 1..Len(csv) : Kept(csv[i]) /\ csv[i].other = NaN

QueryReturned(u) == pc[u] = "delete_many"

\* the countries with a row of year y in the table
CountriesOf(table, y) ==
    {c \in Countries : \E i \in 1..Len(table) :
        table[i].country = Cell(c) /\ table[i].year = Cell(y)}

RECURSIVE SumOver(_, _)
SumOver(table, I) ==
    IF I = {} THEN 0
    ELSE LET i == CHOOSE j \in I : TRUE
         IN  table[i].co2[1] + SumOver(table, I \ {i})

\* the sum of co2 over the rows of country c and year y
TotalOf(table, c, y) ==
    SumOver(table, {i \in 1..Len(table) :
                      table[i].country = Cell(c) /\ table[i].year = Cell(y)})

\* C6 as stated: at most 5 rows, each row's total greater than the next
\* row's, every country from a row of that year.
C6_StrictlyDescending ==
    \A u \in sessions : QueryReturned(u) =>
        LET r == summary_df[u]
        IN  /\ Len(r) <= LIMIT
            /\ \A i \in 1..Len(r) - 1 : r[i].total_co2 > r[i + 1].total_co2
            /\ \A i \in 1..Len(r) : r[i].country \in CountriesOf(bqTable, year[u])

\* C6, amended: at most 5 rows, no row's total smaller than the next row's
\* (countries of equal totals are adjacent, in either order), every country
\* from a row of that year.
C6_Descending ==
    \A u \in sessions : QueryReturned(u) =>
        LET r == summary_df[u]
        IN  /\ Len(r) <= LIMIT
            /\ \A i \in 1..Len(r) - 1 : r[i].total_co2 >= r[i + 1].total_co2
            /\ \A i \in 1..Len(r) : r[i].country \in CountriesOf(bqTable, year[u])

\* five rows out of six countries, two of them with the same total
C6_Witness ==
    \E u \in sessions :
        /\ QueryReturned(u)
        /\ Len(summary_df[u]) = LIMIT
        /\ Cardinality(CountriesOf(bqTable, year[u])) > LIMIT
        /\ \E i \in 1..LIMIT - 1 :
              summary_df[u][i].total_co2 = summary_df[u][i + 1].total_co2
        /\ \E i \in 1..LIMIT - 1 :
              summary_df[u][i].total_co2 > summary_df[u][i + 1].total_co2

ExampleResult ==
    << [country |-> "China", total_co2 |-> 9000],
       [country |-> "USA", total_co2 |-> 5000],
       [country |-> "India", total_co2 |-> 2500],
       [country |-> "Germany", total_co2 |-> 600],
       [country |-> "Brazil", total_co2 |-> 400] >>

\* C7: the result has one row per country, for min(5, number of countries
\* of that year) countries; each row's total is the sum of co2 over the
\* country's rows of that year; no country left out has a larger sum than a
\* returned one; the example's table gives the example's result for 2020.
C7_TopFiveSums ==
    \A u \in sessions : QueryReturned(u) =>
        LET r    == summary_df[u]
            y    == year[u]
            all  == CountriesOf(bqTable, y)
            got  == {r[i].country : i \in 1..Len(r)}
        IN  /\ Len(r) = Min(LIMIT, Cardinality(all))
            /\ Cardinality(got) = Len(r)
            /\ got \subseteq all
            /\ \A i \in 1..Len(r) : r[i].total_co2 = TotalOf(bqTable, r[i].country, y)
            /\ \A d \in all \ got : \A i \in 1..Len(r) :
                  TotalOf(bqTable, d, y) <= r[i].total_co2
            /\ (csv = ExampleCsv /\ y = 2020) => r = ExampleResult

\* the example's query has returned
C7_Witness ==
    \E u \in sessions :
        QueryReturned(u) /\ csv = ExampleCsv /\ year[u] = 2020 /\ Len(summary_df[u]) = LIMIT

(***************************************************************************)
(* Properties of the mirror collection.                                    *)
(***************************************************************************)
RECURSIVE Flatten(_)
Flatten(tables) ==
    IF tables = <<>> THEN <<>> ELSE Head(tables) \o Flatten(Tail(tables))

\* C1 (SpecSingle, one user): once a store_to_mongo call has completed and
\* until the next one starts, the collection's documents are exactly the
\* rows of the table that call was given.
C1_MirrorIsLastResult ==
    sinceDelete # <<>> => Rows(mongo) = stored[Len(stored)]

\* the second completed store_to_mongo, given another table than the first
C1_Witness ==
    /\ Len(stored) = 2
    /\ stored[1] # stored[2]
    /\ sinceDelete # <<>>
    /\ mongo # <<>>

\* store_to_mongo was called by the current action of u and is over
StoreOver(u) == Len(issued[u]) >= 3 /\ pc[u] # "insert_many"

\* C2: when the aggregation returned no row and the document store works,
\* store_to_mongo returns and the action goes on to its later steps.
C2_EmptyResultIsStored ==
    \A u \in sessions :
        (StoreOver(u) /\ summary_df[u] = <<>> /\ raised[u] # "PyMongoError")
            => (returned[u] >= 3 /\ raised[u] # "TypeError")

\* C10: the collection always holds the rows of the insert_many calls
\* completed since the last delete_many, in their order, whoever made them:
\* nothing while none completed (a failure between delete and insert leaves
\* it empty), and the rows of both users when both deleted before either
\* inserted.
C10_MirrorIsInsertsSinceDelete ==
    /\ Rows(mongo) = Flatten(sinceDelete)
    /\ \A u \in sessions :
          (pc[u] = "error" /\ Len(issued[u]) = 3 /\ returned[u] = 2
              /\ sinceDelete = <<>>) => mongo = <<>>

\* both actions completed, for different years, and the collection holds
\* the rows of both results instead of those of the store that ended last
C10_Witness ==
    /\ \A u \in sessions : pc[u] = "done"
    /\ Cardinality(sessions) = 2
    /\ \A u, v \in sessions : u # v => year[u] # year[v]
    /\ Len(sinceDelete) = 2
    /\ sinceDelete[1] # sinceDelete[2]
    /\ Rows(mongo) # stored[Len(stored)]

(***************************************************************************)
(* Properties of the warehouse sync.                                       *)
(***************************************************************************)
\* C3: however many times the sync has loaded the unchanged file, the
\* table holds the rows of one load.
C3_SyncIsIdempotent ==
    bqTable = <<>> \/ bqTable = load_data(csv)

FailedLookup(call) == call[1] = "get_dataset" /\ call[2] \notin {"ok", "NotFound"}

\* C4: after a get_dataset that failed with anything but "not found" the
\* sync makes no further warehouse call: no create_dataset, no load.
C4_OnlyNotFoundIsRecovered ==
    \A u \in sessions : \A i \in 1..Len(trace[u]) :
        FailedLookup(trace[u][i]) => i = Len(trace[u])

\* C5 as stated (SpecSingle): in one process the sync body and the fetch
\* each execute at most once.
C5_ExecutesAtMostOnce ==
    syncRuns <= 1 /\ fetchRuns <= 1

\* C5, amended (SpecSingle): in one process the sync body and the fetch each
\* return at most once, and once one has returned it is not executed again
\* and the warehouse is not touched by the sync again.
C5_ReturnsAtMostOnce ==
    /\ [](syncOk <= 1 /\ fetchOk <= 1)
    /\ [][restarts' = restarts =>
            /\ resourceCache # <<>> =>
                  /\ syncRuns' = syncRuns
                  /\ fetchRuns' = fetchRuns
                  /\ bqTable' = bqTable
                  /\ datasetExists' = datasetExists
            /\ dataCache # <<>> => fetchRuns' = fetchRuns]_vars

\* the body ran twice in one process: the first execution raised, the
\* second returned
C5_Witness ==
    syncRuns = 2 /\ syncOk = 1 /\ fetchOk = 1 /\ resourceCache # <<>>

(***************************************************************************)
(* Properties of the Run Analysis handler.                                 *)
(***************************************************************************)
IsPrefix(s, t) == Len(s) <= Len(t) /\ \A i \in 1..Len(s) : s[i] = t[i]

\* C9: the steps an action has called are a prefix of sync, aggregation,
\* mirror write, training, prediction; a step is called only when all steps
\* before it have returned; predict_co2 only after create_ml_model returned;
\* after a step raised nothing more is called and nothing is rendered; the
\* results are rendered only when all five steps returned.
C9_StepsInOrder ==
    \A u \in sessions :
        /\ IsPrefix(issued[u], Steps)
        /\ returned[u] <= Len(issued[u])
        /\ Len(issued[u]) <= returned[u] + 1
        /\ (Len(issued[u]) = 5 => returned[u] >= 4)
        /\ raised[u] # "" =>
              /\ pc[u] = "error"
              /\ Len(issued[u]) = returned[u] + 1
        /\ pc[u] = "error" => raised[u] # ""
        /\ pc[u] \in {"render", "done"} => returned[u] = 5 /\ raised[u] = ""

\* one action rendered its results, another stopped at the mirror write
C9_Witness ==
    \E u, v \in sessions :
        /\ pc[u] = "done"
        /\ pc[v] = "error" /\ Len(issued[v]) = 3 /\ returned[v] = 2

====
